---- MODULE Spec2Model ----
(***************************************************************************)
(* Model of behave_testrail_reporter/testrail_reporter.py: the reporter    *)
(* that pushes behave scenario results to TestRail runs.                    *)
(*                                                                         *)
(* Strings that the code inspects character by character (tags, case ids,  *)
(* branch names, regular expressions) are sequences of one-character       *)
(* strings.  The TestRail API client is the environment: every call picks  *)
(* its answer (a value or a raised error) nondeterministically and is      *)
(* appended to the call log `calls`.  An exception leaving feature() is    *)
(* not caught anywhere in the reporter; the session stops (pc = "raised"). *)
(* The loops of feature() and process_scenario() advance one iteration per *)
(* step; `step` records the last step taken and the state it started from. *)
(*                                                                         *)
(* Spec is the session of the reporter.  SpecFormat applies format_summary *)
(* to arbitrary summaries, and SpecOrder runs one whole session in two     *)
(* orders of its loops, with answers fixed per project and case id.        *)
(***************************************************************************)
EXTENDS Integers, Sequences, FiniteSets, TLC

\* ---------------------------------------------------------------- bounds
MaxProjects == 2        \* configured projects
MaxWork == 2            \* scenarios x projects processed in one session
MaxTags == 1            \* own tags of one scenario
MaxFeatureTags == 1     \* tags of one feature
MaxCount == 2           \* largest count in a summary given to format_summary

\* ------------------------------------------------------------- constants
STATUS_PASSED == 1
STATUS_BLOCKED == 2
STATUS_UNTESTED == 3
STATUS_RETEST == 4
STATUS_FAILED == 5

CASE_TAG_PREFIX == <<"t", "e", "s", "t", "r", "a", "i", "l", "-", "C">>

EngineStatuses == {"passed", "failed", "skipped", "undefined", "executing", "untested"}

STATUS_MAPS ==
  [s \in EngineStatuses |->
     CASE s = "passed" -> STATUS_PASSED
       [] s = "failed" -> STATUS_FAILED
       [] s = "skipped" -> STATUS_UNTESTED
       [] s = "undefined" -> STATUS_UNTESTED
       [] s = "executing" -> STATUS_UNTESTED
       [] s = "untested" -> STATUS_UNTESTED]

\* Statuses a scenario may carry: the keys of STATUS_MAPS and one member
\* STATUS_MAPS has no key for.
ScenarioStatuses == EngineStatuses \cup {"error"}

\* Mutant of MapStatus: a status without a key defaults to STATUS_UNTESTED.
MapStatus_Default(engine_status) ==
  IF engine_status \in DOMAIN STATUS_MAPS
  THEN [raised |-> FALSE, status |-> STATUS_MAPS[engine_status]]
  ELSE [raised |-> FALSE, status |-> STATUS_UNTESTED]

\* `self.STATUS_MAPS[scenario.status]`: a dict lookup, KeyError without key.
MapStatus(engine_status) ==
  IF engine_status \in DOMAIN STATUS_MAPS
  THEN [raised |-> FALSE, status |-> STATUS_MAPS[engine_status]]
  ELSE [raised |-> TRUE, status |-> 0]

None == [none |-> TRUE]

\* ------------------------------------------------- inputs of the session
\* Tags a feature file may carry: two case tags and an ordinary tag.
TagSet ==
  { CASE_TAG_PREFIX \o <<"1">>,
    CASE_TAG_PREFIX \o <<"1", "2">>,
    <<"w", "i", "p">> }

\* Case ids the TestRail suites may hold (case['id'] is a number).
CaseIds == {1, 12}

\* Ids of the runs TestRail may find for the branch, and of those it creates.
ExistingRunIds == {7}
NewRunIds == {8}

\* allowed_branch_pattern values of testrail.yml and the active branch.
PatternSet == { <<"m", ".", "*">>, <<"d", "e", "v">>, <<"*">> }
BranchSet == { <<"m", "a", "i", "n">> }

SeqsUpTo(S, n) == UNION { [1..k -> S] : k \in 0..n }

\* ------------------------------------------------------ string helpers
Digits == <<"0", "1", "2", "3", "4", "5", "6", "7", "8", "9">>

RECURSIVE Str(_)
Str(n) ==
  IF n < 10 THEN <<Digits[n + 1]>>
  ELSE Str(n \div 10) \o <<Digits[(n % 10) + 1]>>

\* Mutant of StartsWith: the prefix is not checked.
StartsWith_Unchecked(s, prefix) == TRUE

StartsWith(s, prefix) ==
  /\ Len(s) >= Len(prefix)
  /\ SubSeq(s, 1, Len(prefix)) = prefix

CaseIdOfTag(tag) == SubSeq(tag, Len(CASE_TAG_PREFIX) + 1, Len(tag))

\* ------------------------------------------------------------ re.match
\* The regular expressions of PatternSet use literals, "." and a postfix
\* "*".  A "*" with nothing to repeat makes re.match raise re.error.
RECURSIVE ReValidFrom(_, _)
ReValidFrom(pat, i) ==
  IF i > Len(pat) THEN TRUE
  ELSE IF pat[i] = "*" THEN FALSE
  ELSE IF i < Len(pat) /\ pat[i + 1] = "*" THEN ReValidFrom(pat, i + 2)
  ELSE ReValidFrom(pat, i + 1)

ReValid(pat) == ReValidFrom(pat, 1)

AtomMatches(a, c) == a = "." \/ a = c

\* re.match anchors at position 0 only: the pattern has to match a prefix.
RECURSIVE ReMatchFrom(_, _, _, _)
ReMatchFrom(pat, i, s, j) ==
  IF i > Len(pat) THEN TRUE
  ELSE IF i < Len(pat) /\ pat[i + 1] = "*"
    THEN \/ ReMatchFrom(pat, i + 2, s, j)
         \/ /\ j <= Len(s)
            /\ AtomMatches(pat[i], s[j])
            /\ ReMatchFrom(pat, i, s, j + 1)
  ELSE /\ j <= Len(s)
       /\ AtomMatches(pat[i], s[j])
       /\ ReMatchFrom(pat, i + 1, s, j + 1)

ReMatch(pat, s) == ReMatchFrom(pat, 1, s, 1)

\* ------------------------------------------------------------- state
VARIABLES
  projects,       \* self.projects: sequence of TestrailProject
  branch_name,    \* self.branch_name
  case_summary,   \* self.case_summary
  failed_cases,   \* self.failed_cases
  calls,          \* log of the calls made to the API client
  pc,             \* position of the engine/reporter
  feature_tags,   \* scenario.feature.tags of the feature being reported
  scenario,       \* the scenario being processed
  in_outline,     \* TRUE inside process_scenario_outline
  ti,             \* index of the tag of the loop at line 235
  pj,             \* index of the project of the loop at line 239
  nscen,          \* scenarios processed so far
  fmt,            \* arguments of the format_summary call
  printed,        \* the lines printed so far
  order_in,       \* a session given whole: projects, scenarios, answers
  order_out,      \* its outcome in the given and in another order
  triples,        \* (scenario, distinct case tag, project) triples completed
  step            \* the last step: what it was and the state it started from

vars == <<projects, branch_name, case_summary, failed_cases, calls, pc,
          feature_tags, scenario, in_outline, ti, pj, nscen, triples, step,
          fmt, printed, order_in, order_out>>

TestrailProject(id, suite_id, allowed_branch_pattern) ==
  [ id |-> id,
    suite_id |-> suite_id,
    allowed_branch_pattern |-> allowed_branch_pattern,
    test_run |-> None,
    cases |-> {} ]


\* ------------------------------------------------ the TestRail API client
\* One entry of the call log.  ret is "error" when the call raised.
Call(op, project, case_id, status, run_id, name, ret, val) ==
  [ op |-> op,
    project_id |-> project.id,
    suite_id |-> project.suite_id,
    case_id |-> case_id,
    status |-> status,
    run_id |-> run_id,
    name |-> name,
    ret |-> ret,
    val |-> val ]

CaseLists ==
  { <<>>,
    <<[id |-> 1]>>,
    <<[id |-> 1], [id |-> 12]>> }

\* Answers of get_cases, get_run_for_branch, create_run and create_result.
GetCasesResponses ==
  {[err |-> TRUE, val |-> <<>>]} \cup {[err |-> FALSE, val |-> l] : l \in CaseLists}

GetRunResponses ==
  {[err |-> TRUE, val |-> None], [err |-> FALSE, val |-> None]}
    \cup {[err |-> FALSE, val |-> [id |-> r]] : r \in ExistingRunIds}

CreateRunResponses ==
  {[err |-> TRUE, val |-> None]} \cup {[err |-> FALSE, val |-> [id |-> r]] : r \in NewRunIds}

CreateResultResponses == BOOLEAN

\* The answers to draw for a call: one is enough when the call is not made.
Answers(responses, called) ==
  IF called THEN responses ELSE {CHOOSE r \in responses : TRUE}

\* --------------------------------------------------- reporter methods
\* {str(case['id']): case for case in cases}: the keys of the dict.
CasesById(cases) == { Str(cases[k].id) : k \in 1..Len(cases) }

\* `if not testrail_project.cases`
NeedsLoad(project) == project.cases = {}

\* Mutant of NeedsSetup: the run is set up for every result.
NeedsSetup_Always(project) == TRUE

\* `if not project.test_run`
NeedsSetup(project) == project.test_run = None

\* Mutant of RunNotFound: a run is created whatever the lookup answered.
RunNotFound_Always(test_run) == TRUE

\* `if testrail_project.test_run is None`
RunNotFound(test_run) == test_run = None

\* Mutant of IsUntested: the untested check is dropped.
IsUntested_Never(testrail_status) == FALSE

\* `if testrail_status is self.STATUS_UNTESTED`
IsUntested(testrail_status) == testrail_status = STATUS_UNTESTED

\* scenario.tags + scenario.feature.tags
TagsOf(scen, ftags) == scen.tags \o ftags

\* Mutant of Increment: the summary is built anew around the counted key.
Increment_Clear(summary, key) ==
  [k \in DOMAIN summary |-> IF k = key THEN summary[k] + 1 ELSE 0]

Increment(summary, key) == [summary EXCEPT ![key] = @ + 1]

\* Mutant of CanGenerateTestRunForBranch: every branch is allowed.
CanGenerateTestRunForBranch_Always(project, branch) == TRUE

\* _can_generate_test_run_for_branch; only called with a valid pattern
\* (an invalid one raises, see process_project).
CanGenerateTestRunForBranch(project, branch) ==
  ReMatch(project.allowed_branch_pattern, branch)

\* _load_test_cases_for_project with the answer cs of get_cases.
LoadTestCasesForProject(project, cs) ==
  IF cs.err
  THEN [ project |-> project,
         calls |-> <<Call("get_cases", project, <<>>, 0, 0, <<>>, "error", 0)>>,
         raised |-> TRUE ]
  ELSE [ project |-> [project EXCEPT !.cases = CasesById(cs.val)],
         calls |-> <<Call("get_cases", project, <<>>, 0, 0, <<>>, "cases", Len(cs.val))>>,
         raised |-> FALSE ]

\* Mutant of SetupTestRun: a failed lookup is caught and a run is created.
SetupTestRun_Fallback(project, branch, rl, cr) ==
  LET lookup(ret, val) ==
        Call("get_run_for_branch", project, <<>>, 0, 0, branch, ret, val)
      create(ret, val) ==
        Call("create_run", project, <<>>, 0, 0, branch, ret, val)
  IN IF ~rl.err /\ rl.val # None
     THEN [ project |-> [project EXCEPT !.test_run = rl.val],
            calls |-> <<lookup("run", rl.val.id)>>,
            raised |-> FALSE ]
     ELSE IF cr.err
     THEN [ project |-> [project EXCEPT !.test_run = None],
            calls |-> <<lookup(IF rl.err THEN "error" ELSE "none", 0), create("error", 0)>>,
            raised |-> TRUE ]
     ELSE [ project |-> [project EXCEPT !.test_run = cr.val],
            calls |-> <<lookup(IF rl.err THEN "error" ELSE "none", 0),
                        create("run", cr.val.id)>>,
            raised |-> FALSE ]

\* setup_test_run with the answers rl of get_run_for_branch and cr of create_run.
SetupTestRun(project, branch, rl, cr) ==
  LET lookup(ret, val) ==
        Call("get_run_for_branch", project, <<>>, 0, 0, branch, ret, val)
      create(ret, val) ==
        Call("create_run", project, <<>>, 0, 0, branch, ret, val)
      answered == IF rl.val = None THEN lookup("none", 0)
                                   ELSE lookup("run", rl.val.id)
  IN IF rl.err
     THEN [ project |-> project,
            calls |-> <<lookup("error", 0)>>,
            raised |-> TRUE ]
     ELSE IF ~RunNotFound(rl.val)
     THEN [ project |-> [project EXCEPT !.test_run = rl.val],
            calls |-> <<answered>>,
            raised |-> FALSE ]
     ELSE IF cr.err
     THEN [ project |-> [project EXCEPT !.test_run = rl.val],
            calls |-> <<answered, create("error", 0)>>,
            raised |-> TRUE ]
     ELSE [ project |-> [project EXCEPT !.test_run = cr.val],
            calls |-> <<answered, create("run", cr.val.id)>>,
            raised |-> FALSE ]

\* Mutant of AddTestResult: the result is sent with the id of the project
\* in the place of the id of its run.
AddTestResult_ProjectIdAsRun(project, case_id, status, branch, rl, cr, ok) ==
  LET s == IF NeedsSetup(project)
           THEN SetupTestRun(project, branch, rl, cr)
           ELSE [project |-> project, calls |-> <<>>, raised |-> FALSE]
  IN IF s.raised
     THEN [ project |-> s.project, calls |-> s.calls, raised |-> TRUE,
            is_added |-> FALSE ]
     ELSE [ project |-> s.project,
            calls |-> Append(s.calls,
                        Call("create_result", project, case_id, status,
                             project.id, <<>>,
                             IF ok THEN "true" ELSE "false", 0)),
            raised |-> FALSE,
            is_added |-> ok ]

\* _add_test_result with the answer ok of create_result.
AddTestResult(project, case_id, status, branch, rl, cr, ok) ==
  LET s == IF NeedsSetup(project)
           THEN SetupTestRun(project, branch, rl, cr)
           ELSE [project |-> project, calls |-> <<>>, raised |-> FALSE]
  IN IF s.raised
     THEN [ project |-> s.project, calls |-> s.calls, raised |-> TRUE,
            is_added |-> FALSE ]
     ELSE [ project |-> s.project,
            calls |-> Append(s.calls,
                        Call("create_result", project, case_id, status,
                             s.project.test_run.id, <<>>,
                             IF ok THEN "true" ELSE "false", 0)),
            raised |-> FALSE,
            is_added |-> ok ]

\* Mutant of HasCase: the case set is not consulted.
HasCase_Always(project, case_id) == TRUE

\* `if case_id in testrail_project.cases`
HasCase(project, case_id) == case_id \in project.cases

\* Mutant of RecordResult: a successful submission is counted as skipped.
RecordResult_Skipped(summary, failed, case_id, is_added) ==
  IF is_added
  THEN [summary |-> Increment(summary, "skipped"), failed |-> failed]
  ELSE [summary |-> summary, failed |-> Append(failed, case_id)]

\* Mutant of RecordResult: a failed case is put in front of the list.
RecordResult_Prepend(summary, failed, case_id, is_added) ==
  IF is_added
  THEN [summary |-> Increment(summary, "passed"), failed |-> failed]
  ELSE [summary |-> summary, failed |-> <<case_id>> \o failed]

\* Lines 264-267: the answer of create_result goes to the summary or to
\* the list of failed cases.
\* Mutant of RecordResult: a rejected submission is also counted as failed.
RecordResult_CountsFailed(summary, failed, case_id, is_added) ==
  IF is_added
  THEN [summary |-> Increment(summary, "passed"), failed |-> failed]
  ELSE [summary |-> Increment(summary, "failed"), failed |-> Append(failed, case_id)]

RecordResult(summary, failed, case_id, is_added) ==
  IF is_added
  THEN [summary |-> Increment(summary, "passed"), failed |-> failed]
  ELSE [summary |-> summary, failed |-> Append(failed, case_id)]

\* Mutant of ProcessProject: the case is looked for in the cases the project
\* held before the load.
ProcessProject_StaleCases(project, case_id, engine_status, branch, summary, failed, cs, rl, cr, ok) ==
  LET l == IF NeedsLoad(project)
           THEN LoadTestCasesForProject(project, cs)
           ELSE [project |-> project, calls |-> <<>>, raised |-> FALSE]
      m == MapStatus(engine_status)
      testrail_status == m.status
      a == AddTestResult(l.project, case_id, testrail_status, branch, rl, cr, ok)
      rec == RecordResult(summary, failed, case_id, a.is_added)
      R(proj, summ, fail, cls, rsd, out) ==
        [ project |-> proj, summary |-> summ, failed |-> fail,
          calls |-> cls, raised |-> rsd, outcome |-> out ]
  IN IF l.raised
       THEN R(l.project, summary, failed, l.calls, TRUE, "raised")
     ELSE IF ~HasCase(project, case_id)
       THEN R(l.project, Increment(summary, "untested"), failed, l.calls, FALSE,
              "not_matched")
     ELSE IF m.raised
       THEN R(l.project, summary, failed, l.calls, TRUE, "raised")
     ELSE IF IsUntested(testrail_status)
       THEN R(l.project, Increment(summary, "skipped"), failed, l.calls, FALSE,
              "skipped_untested")
     ELSE IF ~ReValid(l.project.allowed_branch_pattern)
       THEN R(l.project, summary, failed, l.calls, TRUE, "raised")
     ELSE IF ~CanGenerateTestRunForBranch(l.project, branch)
       THEN R(l.project, Increment(summary, "skipped"), failed, l.calls, FALSE,
              "skipped_policy")
     ELSE IF a.raised
       THEN R(a.project, summary, failed, l.calls \o a.calls, TRUE, "raised")
     ELSE R(a.project, rec.summary, rec.failed, l.calls \o a.calls, FALSE,
            IF a.is_added THEN "submitted" ELSE "submit_failed")

\* One iteration of the project loop of process_scenario (lines 239-269)
\* for the case id of a case tag, with the answers of the API client.
ProcessProject(project, case_id, engine_status, branch, summary, failed, cs, rl, cr, ok) ==
  LET l == IF NeedsLoad(project)
           THEN LoadTestCasesForProject(project, cs)
           ELSE [project |-> project, calls |-> <<>>, raised |-> FALSE]
      m == MapStatus(engine_status)
      testrail_status == m.status
      a == AddTestResult(l.project, case_id, testrail_status, branch, rl, cr, ok)
      rec == RecordResult(summary, failed, case_id, a.is_added)
      R(proj, summ, fail, cls, rsd, out) ==
        [ project |-> proj, summary |-> summ, failed |-> fail,
          calls |-> cls, raised |-> rsd, outcome |-> out ]
  IN IF l.raised
       THEN R(l.project, summary, failed, l.calls, TRUE, "raised")
     ELSE IF ~HasCase(l.project, case_id)
       THEN R(l.project, Increment(summary, "untested"), failed, l.calls, FALSE,
              "not_matched")
     ELSE IF m.raised
       THEN R(l.project, summary, failed, l.calls, TRUE, "raised")
     ELSE IF IsUntested(testrail_status)
       THEN R(l.project, Increment(summary, "skipped"), failed, l.calls, FALSE,
              "skipped_untested")
     ELSE IF ~ReValid(l.project.allowed_branch_pattern)
       THEN R(l.project, summary, failed, l.calls, TRUE, "raised")
     ELSE IF ~CanGenerateTestRunForBranch(l.project, branch)
       THEN R(l.project, Increment(summary, "skipped"), failed, l.calls, FALSE,
              "skipped_policy")
     ELSE IF a.raised
       THEN R(a.project, summary, failed, l.calls \o a.calls, TRUE, "raised")
     ELSE R(a.project, rec.summary, rec.failed, l.calls \o a.calls, FALSE,
            IF a.is_added THEN "submitted" ELSE "submit_failed")

\* ------------------------------------------------------- format_summary
\* Mutant of optional_steps: every category is left out when its count is 0.
optional_steps_All == {"passed", "failed", "skipped", "undefined", "untested"}

optional_steps == {"untested"}

status_order == <<"passed", "failed", "skipped", "undefined", "untested">>

\* status.name as the characters that are printed.
StatusName(status) ==
  CASE status = "passed" -> <<"p", "a", "s", "s", "e", "d">>
    [] status = "failed" -> <<"f", "a", "i", "l", "e", "d">>
    [] status = "skipped" -> <<"s", "k", "i", "p", "p", "e", "d">>
    [] status = "undefined" -> <<"u", "n", "d", "e", "f", "i", "n", "e", "d">>
    [] status = "untested" -> <<"u", "n", "t", "e", "s", "t", "e", "d">>

\* Mutant of Label: the plural is used for counts above 1 only.
Label_PluralAboveOne(statement_type, counts) ==
  IF counts > 1 THEN statement_type \o <<"s">> ELSE statement_type

\* `label = statement_type; if counts != 1: label += 's'`
Label(statement_type, counts) ==
  IF counts # 1 THEN statement_type \o <<"s">> ELSE statement_type

\* '%d %s %s' % (counts, label, status.name)
FirstPart(statement_type, counts, status) ==
  Str(counts) \o <<" ">> \o Label(statement_type, counts) \o <<" ">> \o StatusName(status)

\* '%d %s' % (counts, status.name)
LaterPart(counts, status) == Str(counts) \o <<" ">> \o StatusName(status)

\* The loop over status_order from its n-th element on, with the parts
\* collected so far.
RECURSIVE FormatParts(_, _, _, _)
FormatParts(statement_type, summary, n, parts) ==
  IF n > Len(status_order) THEN parts
  ELSE LET status == status_order[n]
       IN IF status \notin DOMAIN summary
            THEN FormatParts(statement_type, summary, n + 1, parts)
          ELSE IF status \in optional_steps /\ summary[status] = 0
            THEN FormatParts(statement_type, summary, n + 1, parts)
          ELSE FormatParts(statement_type, summary, n + 1,
                 Append(parts,
                        IF parts = <<>>
                        THEN FirstPart(statement_type, summary[status], status)
                        ELSE LaterPart(summary[status], status)))

\* sep.join(parts)
RECURSIVE Join(_, _)
Join(sep, parts) ==
  IF parts = <<>> THEN <<>>
  ELSE IF Len(parts) = 1 THEN parts[1]
  ELSE parts[1] \o sep \o Join(sep, Tail(parts))

format_summary(statement_type, summary) ==
  Join(<<",", " ">>, FormatParts(statement_type, summary, 1, <<>>))

\* The texts end() prints.
CaseStatementType == <<"t", "e", "s", "t", "r", "a", "i", "l", " ", "t", "e", "s", "t", " ", "c", "a", "s", "e">>
FailedCasesHeader == <<"T", "e", "s", "t", "r", "a", "i", "l", " ", "t", "e", "s", "t", " ", "r", "e", "s", "u", "l", "t", "s", " ", "f", "a", "i", "l", "e", "d", " ", "f", "o", "r", " ", "t", "e", "s", "t", " ", "c", "a", "s", "e", "s", ":">>
CaseIdLabel == <<"c", "a", "s", "e", "_", "i", "d", ":", " ", " ">>

\* No format_summary call was made yet.
NoFormat == [statement_type |-> <<>>, summary |-> <<>>]

\* ----------------------------------------------------------- the session
NoScenario == [tags |-> <<>>, status |-> "untested"]
\* The record of a step: its kind, for an iteration of the project loop its
\* project (index), case id and outcome, and the summary, the failed cases,
\* the length of the call log and the projects it started from.
StepRecord(kind, outcome, project, case_id) ==
  [ kind |-> kind, outcome |-> outcome, project |-> project, case_id |-> case_id,
    summary |-> case_summary, failed |-> failed_cases, ncalls |-> Len(calls),
    projects |-> projects ]

Scenarios == [tags : SeqsUpTo(TagSet, MaxTags), status : ScenarioStatuses]

Tags == TagsOf(scenario, feature_tags)

IsCaseTag(tag) == StartsWith(tag, CASE_TAG_PREFIX)

\* The distinct case tags among the scenario's and the feature's tags.
CaseTags(scen, ftags) ==
  { t \in {scen.tags[k] : k \in 1..Len(scen.tags)} \cup {ftags[k] : k \in 1..Len(ftags)} :
      IsCaseTag(t) }

\* TestrailReporter.__init__: projects from testrail.yml, empty summary.
\* ------------------------------------------------- a session as a whole
\* The answers of the service as a fixed function of the project and the
\* case id: world.cases[id] is what get_cases returns for the project,
\* world.run[id] what get_run_for_branch finds for it, world.ok the case
\* ids whose results create_result accepts; create_run returns a new run.
IterationWithAnswers(st, k, case_id, status, branch, world) ==
  LET p == st.projects[k]
      r == ProcessProject(p, case_id, status, branch, st.summary, st.failed,
                          [err |-> FALSE, val |-> world.cases[p.id]],
                          [err |-> FALSE, val |-> world.run[p.id]],
                          [err |-> FALSE, val |-> [id |-> CHOOSE run \in NewRunIds : TRUE]],
                          case_id \in world.ok[p.id])
  IN [ projects |-> [st.projects EXCEPT ![k] = r.project],
       summary |-> r.summary,
       failed |-> r.failed,
       calls |-> st.calls \o r.calls,
       raised |-> r.raised ]

\* `for testrail_project in self.projects`, from the n-th project of the
\* list `order` on.
RECURSIVE ProjectLoop(_, _, _, _, _, _, _)
ProjectLoop(st, order, n, case_id, status, branch, world) ==
  IF st.raised \/ n > Len(order) THEN st
  ELSE ProjectLoop(IterationWithAnswers(st, order[n], case_id, status, branch, world),
                   order, n + 1, case_id, status, branch, world)

\* `for tag in scenario.tags + scenario.feature.tags`, from the n-th tag on.
RECURSIVE TagLoop(_, _, _, _, _, _, _)
TagLoop(st, tags, n, order, status, branch, world) ==
  IF st.raised \/ n > Len(tags) THEN st
  ELSE IF IsCaseTag(tags[n])
    THEN TagLoop(ProjectLoop(st, order, 1, CaseIdOfTag(tags[n]), status, branch, world),
                 tags, n + 1, order, status, branch, world)
  ELSE TagLoop(st, tags, n + 1, order, status, branch, world)

\* `for scenario in feature`, from the n-th scenario on.
RECURSIVE ScenarioLoop(_, _, _, _, _, _)
ScenarioLoop(st, scenarios, n, order, branch, world) ==
  IF st.raised \/ n > Len(scenarios) THEN st
  ELSE ScenarioLoop(TagLoop(st, scenarios[n].tags, 1, order, scenarios[n].status, branch, world),
                    scenarios, n + 1, order, branch, world)

\* The session of one feature, from the reporter as constructed.
RunSession(projs, order, scenarios, branch, world) ==
  ScenarioLoop([ projects |-> projs,
                 summary |-> [passed |-> 0, failed |-> 0, skipped |-> 0, untested |-> 0],
                 failed |-> <<>>,
                 calls |-> <<>>,
                 raised |-> FALSE ],
               scenarios, 1, order, branch, world)

\* No whole session was given.
NoOrder == [none |-> TRUE]

Init ==
  /\ \E k \in 1..MaxProjects : \E pats \in [1..k -> PatternSet] :
       projects = [i \in 1..k |-> TestrailProject(i, 10 + i, pats[i])]
  /\ branch_name \in BranchSet
  /\ case_summary = [passed |-> 0, failed |-> 0, skipped |-> 0, untested |-> 0]
  /\ failed_cases = <<>>
  /\ calls = <<>>
  /\ pc = "idle"
  /\ feature_tags = <<>>
  /\ scenario = NoScenario
  /\ in_outline = FALSE
  /\ ti = 1
  /\ pj = 1
  /\ nscen = 0
  /\ triples = 0
  /\ step = StepRecord("init", "none", 0, <<>>)
  /\ fmt = NoFormat
  /\ printed = <<>>
  /\ order_in = NoOrder
  /\ order_out = NoOrder

\* The engine calls feature(feature).  (self.duration, which feature() adds
\* to, is only printed by end() and is left out of the state.)
Feature ==
  /\ pc = "idle"
  /\ \E ftags \in SeqsUpTo(TagSet, MaxFeatureTags) : feature_tags' = ftags
  /\ pc' = "feature"
  /\ step' = StepRecord("feature", "none", 0, <<>>)
  /\ UNCHANGED <<order_in, order_out, fmt, printed,
                 projects, branch_name, case_summary, failed_cases, calls,
                 scenario, in_outline, ti, pj, nscen, triples>>

\* The loop of feature() reaches a plain scenario: process_scenario starts.
PlainScenario ==
  /\ pc = "feature"
  /\ (nscen + 1) * Len(projects) <= MaxWork
  /\ \E s \in Scenarios : scenario' = s
  /\ pc' = "scenario"
  /\ ti' = 1
  /\ pj' = 1
  /\ nscen' = nscen + 1
  /\ step' = StepRecord("plain_scenario", "none", 0, <<>>)
  /\ UNCHANGED <<order_in, order_out, fmt, printed,
                 projects, branch_name, case_summary, failed_cases, calls,
                 feature_tags, in_outline, triples>>

\* Mutant of OutlineStart: the outline itself is passed to process_scenario
\* before its expanded scenarios are.
OutlineStart_ProcessesOutline ==
  /\ pc = "feature"
  /\ \E s \in Scenarios : scenario' = s
  /\ pc' = "scenario"
  /\ in_outline' = TRUE
  /\ ti' = 1
  /\ pj' = 1
  /\ step' = StepRecord("outline_start", "none", 0, <<>>)
  /\ UNCHANGED <<order_in, order_out, fmt, printed,
                 projects, branch_name, case_summary, failed_cases, calls,
                 feature_tags, nscen, triples>>

\* The loop of feature() reaches a scenario outline.
OutlineStart ==
  /\ pc = "feature"
  /\ pc' = "outline"
  /\ in_outline' = TRUE
  /\ step' = StepRecord("outline_start", "none", 0, <<>>)
  /\ UNCHANGED <<order_in, order_out, fmt, printed,
                 projects, branch_name, case_summary, failed_cases, calls,
                 feature_tags, scenario, ti, pj, nscen, triples>>

\* process_scenario_outline passes the next expanded scenario to process_scenario.
OutlineScenario ==
  /\ pc = "outline"
  /\ (nscen + 1) * Len(projects) <= MaxWork
  /\ \E s \in Scenarios : scenario' = s
  /\ pc' = "scenario"
  /\ ti' = 1
  /\ pj' = 1
  /\ nscen' = nscen + 1
  /\ step' = StepRecord("outline_scenario", "none", 0, <<>>)
  /\ UNCHANGED <<order_in, order_out, fmt, printed,
                 projects, branch_name, case_summary, failed_cases, calls,
                 feature_tags, in_outline, triples>>

\* process_scenario_outline returns.
OutlineEnd ==
  /\ pc = "outline"
  /\ pc' = "feature"
  /\ in_outline' = FALSE
  /\ step' = StepRecord("outline_end", "none", 0, <<>>)
  /\ UNCHANGED <<order_in, order_out, fmt, printed,
                 projects, branch_name, case_summary, failed_cases, calls,
                 feature_tags, scenario, ti, pj, nscen, triples>>

\* A tag without the prefix: the loop of line 235 goes on to the next tag.
SkipTag ==
  /\ pc = "scenario"
  /\ ti <= Len(Tags)
  /\ ~IsCaseTag(Tags[ti])
  /\ ti' = ti + 1
  /\ step' = StepRecord("skip_tag", "none", 0, <<>>)
  /\ UNCHANGED <<order_in, order_out, fmt, printed,
                 projects, branch_name, case_summary, failed_cases, calls, pc,
                 feature_tags, scenario, in_outline, pj, nscen, triples>>

\* A case tag: one iteration of the project loop.
CaseTagProject ==
  /\ pc = "scenario"
  /\ ti <= Len(Tags)
  /\ IsCaseTag(Tags[ti])
  /\ \E cs \in Answers(GetCasesResponses, NeedsLoad(projects[pj])),
        rl \in Answers(GetRunResponses, NeedsSetup(projects[pj])),
        cr \in Answers(CreateRunResponses, NeedsSetup(projects[pj])),
        ok \in CreateResultResponses :
       LET case_id == CaseIdOfTag(Tags[ti])
           r == ProcessProject(projects[pj], case_id, scenario.status, branch_name,
                               case_summary, failed_cases, cs, rl, cr, ok)
       IN /\ projects' = [projects EXCEPT ![pj] = r.project]
          /\ case_summary' = r.summary
          /\ failed_cases' = r.failed
          /\ calls' = calls \o r.calls
          /\ pc' = IF r.raised THEN "raised" ELSE "scenario"
          /\ ti' = IF ~r.raised /\ pj = Len(projects) THEN ti + 1 ELSE ti
          /\ pj' = IF r.raised THEN pj
                   ELSE IF pj = Len(projects) THEN 1 ELSE pj + 1
          /\ step' = StepRecord("iteration", r.outcome, pj, case_id)
  /\ UNCHANGED <<order_in, order_out, fmt, printed,
                 branch_name, feature_tags, scenario, in_outline, nscen, triples>>

\* process_scenario returns: all tags are done.
ScenarioEnd ==
  /\ pc = "scenario"
  /\ ti > Len(Tags)
  /\ pc' = IF in_outline THEN "outline" ELSE "feature"
  /\ triples' = triples + Cardinality(CaseTags(scenario, feature_tags)) * Len(projects)
  /\ scenario' = NoScenario
  /\ ti' = 1
  /\ pj' = 1
  /\ step' = StepRecord("scenario_end", "none", 0, <<>>)
  /\ UNCHANGED <<order_in, order_out, fmt, printed,
                 projects, branch_name, case_summary, failed_cases, calls,
                 feature_tags, in_outline, nscen>>

\* feature() returns.
FeatureEnd ==
  /\ pc = "feature"
  /\ pc' = "idle"
  /\ feature_tags' = <<>>
  /\ step' = StepRecord("feature_end", "none", 0, <<>>)
  /\ UNCHANGED <<order_in, order_out, fmt, printed,
                 projects, branch_name, case_summary, failed_cases, calls,
                 scenario, in_outline, ti, pj, nscen, triples>>

\* The engine calls end(): the failed cases are printed if the
\* show_failed_cases option is set, then the summary line.  (The line with
\* the duration is left out, as self.duration is.)
End ==
  /\ pc = "idle"
  /\ pc' = "ended"
  /\ fmt' = [statement_type |-> CaseStatementType, summary |-> case_summary]
  /\ \E show_failed_cases \in BOOLEAN :
       printed' =
         (IF show_failed_cases /\ failed_cases # <<>>
          THEN <<FailedCasesHeader>>
                 \o [n \in 1..Len(failed_cases) |-> CaseIdLabel \o failed_cases[n]]
          ELSE <<>>)
         \o <<format_summary(CaseStatementType, case_summary)>>
  /\ step' = StepRecord("end", "none", 0, <<>>)
  /\ UNCHANGED <<order_in, order_out,
                 projects, branch_name, case_summary, failed_cases, calls,
                 feature_tags, scenario, in_outline, ti, pj, nscen, triples>>

Next ==
  \/ Feature
  \/ PlainScenario
  \/ OutlineStart
  \/ OutlineScenario
  \/ OutlineEnd
  \/ SkipTag
  \/ CaseTagProject
  \/ ScenarioEnd
  \/ FeatureEnd
  \/ End

Spec == Init /\ [][Next]_vars

\* --------------------------------------------- format_summary on its own
\* The statement types and the summaries format_summary is applied to: any
\* mapping from some of the status names to counts.
StatementTypes == {CaseStatementType, <<"s", "t", "e", "p">>}

Summaries ==
  UNION {[keys -> 0..MaxCount] : keys \in SUBSET {status_order[n] : n \in DOMAIN status_order}}

InitFormat ==
  /\ projects = <<>>
  /\ branch_name \in BranchSet
  /\ case_summary = [passed |-> 0, failed |-> 0, skipped |-> 0, untested |-> 0]
  /\ failed_cases = <<>>
  /\ calls = <<>>
  /\ pc = "format"
  /\ feature_tags = <<>>
  /\ scenario = NoScenario
  /\ in_outline = FALSE
  /\ ti = 1
  /\ pj = 1
  /\ nscen = 0
  /\ triples = 0
  /\ step = StepRecord("init", "none", 0, <<>>)
  /\ fmt \in [statement_type : StatementTypes, summary : Summaries]
  /\ printed = <<>>
  /\ order_in = NoOrder
  /\ order_out = NoOrder

\* print(format_summary(statement_type, summary))
FormatSummary ==
  /\ pc = "format"
  /\ pc' = "formatted"
  /\ printed' = <<format_summary(fmt.statement_type, fmt.summary)>>
  /\ UNCHANGED <<order_in, order_out,
                 projects, branch_name, case_summary, failed_cases, calls,
                 feature_tags, scenario, in_outline, ti, pj, nscen, triples,
                 step, fmt>>

NextFormat == FormatSummary

SpecFormat == InitFormat /\ [][NextFormat]_vars

\* ------------------------------------------- a session in another order
\* The statuses of the scenarios of a session given whole.
OrderStatuses == {"passed", "skipped"}

Reverse(seq) == [n \in 1..Len(seq) |-> seq[Len(seq) + 1 - n]]

\* The ways to reorder the loops: the scenarios of the feature, the
\* projects of the configuration, the tags of every scenario, or all three.
OrderKinds == {"scenarios", "projects", "tags", "all"}

CaseIdStrings == {Str(c) : c \in CaseIds}

\* The answers of the service: a fixed function of project and case id.
Worlds ==
  [ cases : [1..MaxProjects -> CaseLists],
    run : [1..MaxProjects -> {None} \cup {[id |-> r] : r \in ExistingRunIds}],
    ok : {[i \in 1..MaxProjects |-> accepted] : accepted \in SUBSET CaseIdStrings} ]

\* One feature with two scenarios: the tag list of a scenario is made of
\* its own tags and of the tags of the feature.
OrderSessions ==
  { <<[tags |-> TagsOf(a, ftags), status |-> a.status],
      [tags |-> TagsOf(b, ftags), status |-> b.status]>> :
      a \in [tags : SeqsUpTo(TagSet, MaxTags), status : OrderStatuses],
      b \in [tags : SeqsUpTo(TagSet, MaxTags), status : OrderStatuses],
      ftags \in SeqsUpTo(TagSet, MaxFeatureTags) }

InitOrder ==
  /\ projects = <<>>
  /\ branch_name \in BranchSet
  /\ case_summary = [passed |-> 0, failed |-> 0, skipped |-> 0, untested |-> 0]
  /\ failed_cases = <<>>
  /\ calls = <<>>
  /\ pc = "order"
  /\ feature_tags = <<>>
  /\ scenario = NoScenario
  /\ in_outline = FALSE
  /\ ti = 1
  /\ pj = 1
  /\ nscen = 0
  /\ triples = 0
  /\ step = StepRecord("init", "none", 0, <<>>)
  /\ fmt = NoFormat
  /\ printed = <<>>
  /\ \E pats \in [1..MaxProjects -> PatternSet], world \in Worlds, scenarios \in OrderSessions :
       order_in = [ projects |-> [i \in 1..MaxProjects |-> TestrailProject(i, 10 + i, pats[i])],
                    scenarios |-> scenarios,
                    world |-> world ]
  /\ order_out = NoOrder

\* The session is run as given and with its loops reordered.
Reorder ==
  /\ pc = "order"
  /\ pc' = "ordered"
  /\ \E kind \in OrderKinds :
       LET given == [i \in 1..MaxProjects |-> i]
           order == IF kind \in {"projects", "all"} THEN Reverse(given) ELSE given
           retagged == [n \in 1..Len(order_in.scenarios) |->
                          [order_in.scenarios[n] EXCEPT
                             !.tags = IF kind \in {"tags", "all"} THEN Reverse(@) ELSE @]]
           scenarios == IF kind \in {"scenarios", "all"} THEN Reverse(retagged) ELSE retagged
       IN order_out' =
            [ kind |-> kind,
              given |-> RunSession(order_in.projects, given, order_in.scenarios,
                                   branch_name, order_in.world),
              other |-> RunSession(order_in.projects, order, scenarios,
                                   branch_name, order_in.world) ]
  /\ UNCHANGED <<projects, branch_name, case_summary, failed_cases, calls,
                 feature_tags, scenario, in_outline, ti, pj, nscen, triples,
                 step, fmt, printed, order_in>>

NextOrder == Reorder

SpecOrder == InitOrder /\ [][NextOrder]_vars

TypeOK ==
  /\ pc \in {"idle", "feature", "outline", "scenario", "raised", "ended"}
  /\ nscen \in 0..MaxWork
  /\ \A k \in 1..Len(projects) : projects[k].cases \subseteq {Str(c) : c \in CaseIds}

\* ------------------------------------------------ vocabulary of the claims
ProjectIndices == DOMAIN projects

\* The calls of one operation made for one project, in call order.
CallsFor(log, op, project_id) ==
  SelectSeq(log, LAMBDA c : c.op = op /\ c.project_id = project_id)

CountIn(log, op, project_id) == Len(CallsFor(log, op, project_id))

\* The calls the last step appended to the log.
NewCalls == SubSeq(calls, step.ncalls + 1, Len(calls))

NewCallsOf(ops) == SelectSeq(NewCalls, LAMBDA c : c.op \in ops)

RunOps == {"get_run_for_branch", "create_run"}

\* The last step ran the loop body for a case tag and a project.
AfterIteration == step.kind = "iteration"

SomeCallRaised == \E n \in 1..Len(NewCalls) : NewCalls[n].ret = "error"

UntestedStatuses == {"skipped", "undefined", "executing", "untested"}

\* re.match(pattern, branch) returns a match / returns None.
BranchMatches(k) ==
  /\ ReValid(projects[k].allowed_branch_pattern)
  /\ ReMatch(projects[k].allowed_branch_pattern, branch_name)

BranchDoesNotMatch(k) ==
  /\ ReValid(projects[k].allowed_branch_pattern)
  /\ ~ReMatch(projects[k].allowed_branch_pattern, branch_name)

OutcomeCount ==
  case_summary.passed + case_summary.skipped + case_summary.untested + Len(failed_cases)

\* ------------------------------------------------------------------ C1
\* C1: get_cases is called at most once for every project, and a project's
\* case set is empty as long as get_cases was not called for it.
C1_GetCasesAtMostOnce ==
  \A k \in ProjectIndices :
    /\ CountIn(calls, "get_cases", projects[k].id) <= 1
    /\ (CountIn(calls, "get_cases", projects[k].id) = 0 => projects[k].cases = {})

\* ------------------------------------------------------------------ C2
\* C2: for every project get_run_for_branch is called at most once and
\* create_run at most once, and a test_run that was set before a step is
\* still the project's test_run after it.
C2_RunSetupAtMostOnce ==
  \A k \in ProjectIndices :
    /\ CountIn(calls, "get_run_for_branch", projects[k].id) <= 1
    /\ CountIn(calls, "create_run", projects[k].id) <= 1
    /\ step.projects[k].test_run # None =>
         projects[k].test_run = step.projects[k].test_run

\* In a second scenario, a project with a run received one more result.
C2_Witness ==
  /\ AfterIteration
  /\ step.outcome \in {"submitted", "submit_failed"}
  /\ nscen = 2
  /\ step.projects[step.project].test_run # None
  /\ CountIn(calls, "create_result", projects[step.project].id) >= 2
  /\ CountIn(calls, "get_run_for_branch", projects[step.project].id) = 1

\* ------------------------------------------------------------------ C3
\* C3: once a scenario is processed without an error, the recorded outcomes
\* (passed + skipped + untested + failed cases) number exactly the
\* (scenario, distinct case tag, project) triples processed.
C3_OneOutcomePerTriple ==
  pc \in {"idle", "feature", "outline", "ended"} => OutcomeCount = triples

\* ------------------------------------------------------------------ C4
\* C4: an iteration for a scenario whose status maps to Untested makes no
\* create_result, get_run_for_branch or create_run call and, when the case
\* is in the project's case set, adds exactly 1 to skipped; every
\* create_result call carries Passed or Failed, Passed exactly when the
\* scenario passed.
C4_UntestedNeverSubmitted ==
  AfterIteration =>
    /\ scenario.status \in UntestedStatuses =>
         /\ NewCallsOf(RunOps \cup {"create_result"}) = <<>>
         /\ step.case_id \in projects[step.project].cases =>
              /\ case_summary = [step.summary EXCEPT !.skipped = @ + 1]
              /\ failed_cases = step.failed
    /\ \A n \in 1..Len(NewCalls) :
         NewCalls[n].op = "create_result" =>
           /\ NewCalls[n].status \in {STATUS_PASSED, STATUS_FAILED}
           /\ NewCalls[n].status = STATUS_PASSED <=> scenario.status = "passed"

\* An untested scenario was skipped for a project whose branch pattern
\* would have allowed the submission.
C4_Witness ==
  /\ AfterIteration
  /\ step.outcome = "skipped_untested"
  /\ scenario.status \in UntestedStatuses
  /\ BranchMatches(step.project)
  /\ step.case_id \in projects[step.project].cases
  /\ case_summary.skipped = step.summary.skipped + 1

\* ------------------------------------------------------------------ C5
\* C5: an iteration for a passed or failed scenario whose case is in the
\* project's case set and whose branch pattern does not match the branch
\* adds exactly 1 to skipped, changes nothing else of the summary and makes
\* no get_run_for_branch, create_run or create_result call; a project whose
\* pattern does not match never has a test_run.
C5_BranchNotAllowedSkips ==
  /\ \A k \in ProjectIndices : ~BranchMatches(k) => projects[k].test_run = None
  /\ ( /\ AfterIteration
       /\ scenario.status \in {"passed", "failed"}
       /\ step.case_id \in projects[step.project].cases
       /\ BranchDoesNotMatch(step.project) ) =>
       /\ case_summary = [step.summary EXCEPT !.skipped = @ + 1]
       /\ failed_cases = step.failed
       /\ NewCallsOf(RunOps \cup {"create_result"}) = <<>>

C5_Witness ==
  /\ AfterIteration
  /\ step.outcome = "skipped_policy"
  /\ scenario.status \in {"passed", "failed"}
  /\ BranchDoesNotMatch(step.project)
  /\ step.case_id \in projects[step.project].cases
  /\ case_summary.skipped = step.summary.skipped + 1

\* ------------------------------------------------------------------ C6
\* C6: an iteration for a passed or failed scenario whose case is in the
\* project's case set and whose branch pattern matches, and in which the
\* run setup raised nothing, makes exactly one create_result call, for that
\* project, with the mapped status code and the case id of the tag; on a
\* truthy answer passed grows by exactly 1 and nothing else of the summary
\* changes.
C6_OneResultPerMatchingProject ==
  ( /\ AfterIteration
    /\ scenario.status \in {"passed", "failed"}
    /\ step.case_id \in projects[step.project].cases
    /\ BranchMatches(step.project)
    /\ pc # "raised" ) =>
    LET results == NewCallsOf({"create_result"})
    IN /\ Len(results) = 1
       /\ results[1].project_id = projects[step.project].id
       /\ results[1].case_id = step.case_id
       /\ results[1].status =
            (IF scenario.status = "passed" THEN STATUS_PASSED ELSE STATUS_FAILED)
       /\ results[1].ret = "true" =>
            /\ case_summary = [step.summary EXCEPT !.passed = @ + 1]
            /\ failed_cases = step.failed

\* A failed scenario whose case is in two projects was pushed to both, the
\* second push being counted as passed.
C6_Witness ==
  /\ AfterIteration
  /\ step.outcome = "submitted"
  /\ step.project = 2
  /\ scenario.status = "failed"
  /\ case_summary.passed = 2
  /\ \A k \in ProjectIndices :
       /\ step.case_id \in projects[k].cases
       /\ CountIn(calls, "create_result", projects[k].id) = 1

\* ------------------------------------------------------------------ C7
\* C7: an iteration in which the case id of the tag is not in the project's
\* case set (the load, if any, having returned) adds exactly 1 to untested,
\* changes nothing else of the summary, raises nothing and makes no call
\* other than the project's get_cases.
C7_UnmatchedCaseIsUntested ==
  ( /\ AfterIteration
    /\ ~SomeCallRaised
    /\ step.case_id \notin projects[step.project].cases ) =>
    /\ case_summary = [step.summary EXCEPT !.untested = @ + 1]
    /\ failed_cases = step.failed
    /\ pc = "scenario"
    /\ NewCallsOf(RunOps \cup {"create_result"}) = <<>>
    /\ Len(NewCalls) <= 1
    /\ projects[step.project].test_run = step.projects[step.project].test_run

\* A case of one project counted as untested for the other project.
C7_Witness ==
  /\ AfterIteration
  /\ step.outcome = "not_matched"
  /\ case_summary.untested = step.summary.untested + 1
  /\ step.case_id \notin projects[step.project].cases
  /\ projects[step.project].cases # {}
  /\ \E k \in ProjectIndices : step.case_id \in projects[k].cases

\* ------------------------------------------------------------------ C8
\* C8: no step of the processing of a scenario without any case tag (own
\* or of the feature) makes a call or changes the summary, the failed
\* cases or a project.
HasPrefix(tag) ==
  /\ Len(tag) >= Len(CASE_TAG_PREFIX)
  /\ \A n \in 1..Len(CASE_TAG_PREFIX) : tag[n] = CASE_TAG_PREFIX[n]

NoPrefixedTag ==
  /\ \A n \in 1..Len(scenario.tags) : ~HasPrefix(scenario.tags[n])
  /\ \A n \in 1..Len(feature_tags) : ~HasPrefix(feature_tags[n])

C8_NoCaseTagNoEffect ==
  (pc \in {"scenario", "raised"} /\ NoPrefixedTag) =>
    /\ pc = "scenario"
    /\ NewCalls = <<>>
    /\ case_summary = step.summary
    /\ failed_cases = step.failed
    /\ projects = step.projects

\* All the tags of a scenario with ordinary tags only have been looked at.
C8_Witness ==
  /\ pc = "scenario"
  /\ step.kind = "skip_tag"
  /\ Len(scenario.tags) >= 1
  /\ Len(feature_tags) >= 1
  /\ NoPrefixedTag
  /\ ti > Len(Tags)

\* ------------------------------------------------------------------ C9
\* C9: the failed cases are exactly the case ids of the create_result calls
\* answered falsy, in call order, and passed is the number of create_result
\* calls answered truthy; a falsy answer changes no counter and raises
\* nothing.
FailedResults == SelectSeq(calls, LAMBDA c : c.op = "create_result" /\ c.ret = "false")
PassedResults == SelectSeq(calls, LAMBDA c : c.op = "create_result" /\ c.ret = "true")

C9_FailedCasesInCallOrder ==
  /\ failed_cases = [n \in 1..Len(FailedResults) |-> FailedResults[n].case_id]
  /\ case_summary.passed = Len(PassedResults)
  /\ (\E n \in 1..Len(NewCalls) :
        NewCalls[n].op = "create_result" /\ NewCalls[n].ret = "false") =>
       /\ case_summary = step.summary
       /\ failed_cases = Append(step.failed, step.case_id)
       /\ pc = "scenario"

\* Two submissions failed for different cases, and processing went on.
C9_Witness ==
  /\ Len(failed_cases) = 2
  /\ failed_cases[1] # failed_cases[2]
  /\ pc = "feature"

\* ----------------------------------------------------------------- C10
\* C10: a get_cases, get_run_for_branch or create_run call that raises is the
\* last call of the session: the iteration ends there without a
\* create_result call and without touching the summary or the failed cases,
\* the project's test_run stays unset when the lookup or the creation
\* raised, and no step follows the one that raised.
C10_ServiceErrorPropagates ==
  /\ pc = "raised" => AfterIteration
  /\ SomeCallRaised =>
       /\ pc = "raised"
       /\ NewCalls[Len(NewCalls)].ret = "error"
       /\ NewCalls[Len(NewCalls)].op \in RunOps \cup {"get_cases"}
       /\ \A n \in 1..(Len(NewCalls) - 1) :
            NewCalls[n].ret # "error" /\ NewCalls[n].op # NewCalls[Len(NewCalls)].op
       /\ NewCallsOf({"create_result"}) = <<>>
       /\ case_summary = step.summary
       /\ failed_cases = step.failed
       /\ NewCalls[Len(NewCalls)].op \in RunOps => projects[step.project].test_run = None
       /\ \A k \in ProjectIndices \ {step.project} : projects[k] = step.projects[k]

\* create_run raised after the lookup found no run.
C10_Witness ==
  /\ pc = "raised"
  /\ Len(NewCalls) = 2
  /\ NewCalls[2].op = "create_run"
  /\ NewCalls[2].ret = "error"
  /\ NewCalls[1].op = "get_run_for_branch"
  /\ \A k \in ProjectIndices : projects[k].test_run = None

\* ----------------------------------------------------------------- C11
\* The project of a logged call.
ProjectOfCall(c) == CHOOSE k \in ProjectIndices : projects[k].id = c.project_id

\* The calls before position n made for the project of calls[n].
EarlierFor(n, op) ==
  {m \in 1..(n - 1) : calls[m].op = op /\ calls[m].project_id = calls[n].project_id}

\* C11: the run of a project is looked up by get_run_for_branch(project id,
\* branch name) first; a run the lookup returned is adopted and create_run
\* is never called for that project; create_run(project id, suite id,
\* name = branch name) directly follows a lookup of the same project that
\* returned no run, and the created run is adopted; no create_result is
\* sent for a project before the lookup of that project has returned.
C11_RunLookupBeforeCreate ==
  \A n \in 1..Len(calls) :
    LET c == calls[n]
        p == projects[ProjectOfCall(c)]
    IN /\ c.op = "get_run_for_branch" =>
            /\ c.name = branch_name
            /\ EarlierFor(n, "create_run") = {}
            /\ EarlierFor(n, "create_result") = {}
            /\ c.ret = "run" =>
                 /\ p.test_run = [id |-> c.val]
                 /\ CountIn(calls, "create_run", c.project_id) = 0
       /\ c.op = "create_run" =>
            /\ n > 1
            /\ calls[n - 1].op = "get_run_for_branch"
            /\ calls[n - 1].project_id = c.project_id
            /\ calls[n - 1].ret = "none"
            /\ c.name = branch_name
            /\ c.suite_id = p.suite_id
            /\ c.ret = "run" => p.test_run = [id |-> c.val]
       /\ c.op = "create_result" =>
            \E m \in EarlierFor(n, "get_run_for_branch") : calls[m].ret \in {"run", "none"}

\* One project adopted the run the lookup returned and another one the run
\* it had to create, and results were sent to both.
C11_Witness ==
  \E j, k \in ProjectIndices :
    /\ \E n \in 1..Len(calls) :
         /\ calls[n].op = "get_run_for_branch"
         /\ calls[n].project_id = projects[j].id
         /\ calls[n].ret = "run"
         /\ projects[j].test_run = [id |-> calls[n].val]
    /\ \E n \in 1..Len(calls) :
         /\ calls[n].op = "create_run"
         /\ calls[n].project_id = projects[k].id
         /\ calls[n].ret = "run"
         /\ projects[k].test_run = [id |-> calls[n].val]
    /\ CountIn(calls, "create_result", projects[j].id) > 0
    /\ CountIn(calls, "create_result", projects[k].id) > 0

\* ----------------------------------------------------------------- C12
\* The TestRail status the claim gives for each of the six engine statuses.
ClaimedCode(engine_status) ==
  CASE engine_status = "passed" -> STATUS_PASSED
    [] engine_status = "failed" -> STATUS_FAILED
    [] engine_status \in UntestedStatuses -> STATUS_UNTESTED

\* The last step ran the loop body for a case the project holds.
AfterMatchedIteration ==
  /\ AfterIteration
  /\ step.case_id \in projects[step.project].cases

\* C12: passed maps to Passed, failed to Failed, and skipped, undefined,
\* executing and untested map to Untested; Blocked and Retest are never
\* produced, neither by the mapping nor in a create_result call; a status
\* outside the six is not given a code: the lookup raises, and the
\* iteration that made it ends the session without a result and without a
\* change of the summary or the failed cases.
C12_StatusMapping ==
  /\ \A s \in ScenarioStatuses :
       IF s \in {"passed", "failed"} \cup UntestedStatuses
       THEN MapStatus(s) = [raised |-> FALSE, status |-> ClaimedCode(s)]
       ELSE MapStatus(s).raised
  /\ \A n \in 1..Len(calls) :
       calls[n].op = "create_result" => calls[n].status \notin {STATUS_BLOCKED, STATUS_RETEST}
  /\ \A n \in 1..Len(NewCalls) :
       NewCalls[n].op = "create_result" =>
         /\ scenario.status \in {"passed", "failed"}
         /\ NewCalls[n].status = ClaimedCode(scenario.status)
  /\ (AfterMatchedIteration /\ scenario.status \in UntestedStatuses) =>
       /\ step.outcome = "skipped_untested"
       /\ case_summary = [step.summary EXCEPT !["skipped"] = @ + 1]
  /\ (AfterMatchedIteration /\ scenario.status \notin {"passed", "failed"} \cup UntestedStatuses) =>
       /\ pc = "raised"
       /\ NewCallsOf({"create_result"} \cup RunOps) = <<>>
       /\ case_summary = step.summary
       /\ failed_cases = step.failed

\* A scenario whose status has no key reached the lookup: the session ended
\* there although no call of the API client raised.
C12_Witness ==
  /\ AfterMatchedIteration
  /\ scenario.status \notin DOMAIN STATUS_MAPS
  /\ pc = "raised"
  /\ ~SomeCallRaised
  /\ \E n \in 1..Len(calls) : calls[n].op = "create_result" /\ calls[n].status = STATUS_FAILED

\* ----------------------------------------------------------------- C13
\* The session as a reporter that is only given plain scenarios sees it: an
\* outline in progress is the feature in progress, and the expanded
\* scenarios are the scenarios of the feature.
PlainPc == IF pc = "outline" THEN "feature" ELSE pc

\* What the reporter holds and has sent, and where the scenario loop is.
SessionData ==
  <<projects, branch_name, case_summary, failed_cases, calls, feature_tags,
    scenario, ti, pj, nscen, triples>>

\* The steps of a session of plain scenarios, over PlainPc and SessionData.
PlainFeatureStep ==
  /\ PlainPc = "idle"
  /\ PlainPc' = "feature"
  /\ feature_tags' \in SeqsUpTo(TagSet, MaxFeatureTags)
  /\ UNCHANGED <<projects, branch_name, case_summary, failed_cases, calls,
                 scenario, ti, pj, nscen, triples>>

PlainScenarioStep ==
  /\ PlainPc = "feature"
  /\ PlainPc' = "scenario"
  /\ scenario' \in Scenarios
  /\ ti' = 1
  /\ pj' = 1
  /\ nscen' = nscen + 1
  /\ UNCHANGED <<projects, branch_name, case_summary, failed_cases, calls,
                 feature_tags, triples>>

PlainSkipTagStep ==
  /\ PlainPc = "scenario"
  /\ PlainPc' = "scenario"
  /\ ti <= Len(Tags)
  /\ ~HasPrefix(Tags[ti])
  /\ ti' = ti + 1
  /\ UNCHANGED <<projects, branch_name, case_summary, failed_cases, calls,
                 feature_tags, scenario, pj, nscen, triples>>

PlainIterationStep ==
  /\ PlainPc = "scenario"
  /\ ti <= Len(Tags)
  /\ HasPrefix(Tags[ti])
  /\ UNCHANGED <<branch_name, feature_tags, scenario, nscen, triples>>
  /\ \E cs \in GetCasesResponses, rl \in GetRunResponses,
        cr \in CreateRunResponses, ok \in CreateResultResponses :
       LET r == ProcessProject(projects[pj], CaseIdOfTag(Tags[ti]), scenario.status,
                               branch_name, case_summary, failed_cases, cs, rl, cr, ok)
       IN /\ projects' = [projects EXCEPT ![pj] = r.project]
          /\ case_summary' = r.summary
          /\ failed_cases' = r.failed
          /\ calls' = calls \o r.calls
          /\ PlainPc' = IF r.raised THEN "raised" ELSE "scenario"
          /\ ti' = IF ~r.raised /\ pj = Len(projects) THEN ti + 1 ELSE ti
          /\ pj' = IF r.raised THEN pj
                   ELSE IF pj = Len(projects) THEN 1 ELSE pj + 1

PlainScenarioEndStep ==
  /\ PlainPc = "scenario"
  /\ PlainPc' = "feature"
  /\ ti > Len(Tags)
  /\ scenario' = NoScenario
  /\ ti' = 1
  /\ pj' = 1
  /\ UNCHANGED <<projects, branch_name, case_summary, failed_cases, calls,
                 feature_tags, nscen>>

PlainFeatureEndStep ==
  /\ PlainPc = "feature"
  /\ PlainPc' = "idle"
  /\ feature_tags' = <<>>
  /\ UNCHANGED <<projects, branch_name, case_summary, failed_cases, calls,
                 scenario, ti, pj, nscen, triples>>

PlainEndStep ==
  /\ PlainPc = "idle"
  /\ PlainPc' = "ended"
  /\ UNCHANGED SessionData

PlainStep ==
  \/ UNCHANGED <<PlainPc, SessionData>>
  \/ PlainSkipTagStep
  \/ PlainScenarioEndStep
  \/ PlainScenarioStep
  \/ PlainFeatureStep
  \/ PlainFeatureEndStep
  \/ PlainEndStep
  \/ PlainIterationStep

\* C13: a session with scenario outlines is, step by step, a session in
\* which the expanded scenarios of each outline are plain scenarios of the
\* feature, in the same order: entering and leaving an outline changes
\* nothing, and every other step changes the projects, the summary, the
\* failed cases and the call log as the step of the plain session does.
C13_OutlineIsPlainScenarios == [][PlainStep]_vars

\* Two expanded scenarios of one outline were processed: two results were
\* accepted and counted as passed after one get_cases call and one run
\* lookup for the project.
C13_Witness ==
  /\ pc = "outline"
  /\ nscen = 2
  /\ step.kind = "scenario_end"
  /\ Len(projects) = 1
  /\ case_summary.passed = 2
  /\ CountIn(calls, "create_result", projects[1].id) = 2
  /\ CountIn(calls, "get_cases", projects[1].id) = 1
  /\ CountIn(calls, "get_run_for_branch", projects[1].id) = 1

\* ----------------------------------------------------------------- C14
\* The five categories of a summary.
Categories == {"passed", "failed", "skipped", "undefined", "untested"}

\* The keys of the reporter's own summary.
ReporterKeys == {"passed", "failed", "skipped", "untested"}

\* The line format_summary returned.
SummaryLine == printed[Len(printed)]

\* The word occurs in the line.
Contains(line, word) ==
  \E i \in 1..(Len(line) - Len(word) + 1) : SubSeq(line, i, i + Len(word) - 1) = word

\* C14: the line format_summary returns names the untested category exactly
\* when it is in the mapping with a count other than 0, and names each of
\* passed, failed, skipped and undefined exactly when it is in the mapping,
\* also with the count 0; for a mapping with the reporter's keys the line
\* names passed, failed and skipped.
C14_ZeroCountsShown ==
  pc = "formatted" =>
    /\ Contains(SummaryLine, StatusName("untested")) <=>
         ("untested" \in DOMAIN fmt.summary /\ fmt.summary["untested"] # 0)
    /\ \A status \in Categories \ {"untested"} :
         Contains(SummaryLine, StatusName(status)) <=> status \in DOMAIN fmt.summary
    /\ DOMAIN fmt.summary = ReporterKeys =>
         \A status \in {"passed", "failed", "skipped"} :
           Contains(SummaryLine, StatusName(status))

\* A summary with the reporter's keys and only zero counts was formatted:
\* the line shows three parts and no untested part.
C14_Witness ==
  /\ pc = "formatted"
  /\ DOMAIN fmt.summary = ReporterKeys
  /\ \A status \in ReporterKeys : fmt.summary[status] = 0
  /\ Contains(SummaryLine, <<"0", " ">> \o StatusName("failed"))
  /\ Contains(SummaryLine, <<"0", " ">> \o StatusName("skipped"))
  /\ ~Contains(SummaryLine, StatusName("untested"))

\* ----------------------------------------------------------------- C15
\* The sum of the four counters of a summary.
Total(summary) ==
  summary.passed + summary.failed + summary.skipped + summary.untested

\* C15: the summary is never reset: after construction the four counters
\* are 0 and the list of failed cases is empty; no step lowers a counter,
\* a step raises at most one counter, and by exactly 1; a step leaves the
\* list of failed cases as it is or appends one case id to it.
C15_SummaryOnlyGrows ==
  /\ step.kind = "init" =>
       /\ \A key \in ReporterKeys : case_summary[key] = 0
       /\ failed_cases = <<>>
  /\ DOMAIN case_summary = ReporterKeys
  /\ \A key \in ReporterKeys : case_summary[key] >= step.summary[key]
  /\ Total(case_summary) - Total(step.summary) \in {0, 1}
  /\ Len(failed_cases) - Len(step.failed) \in {0, 1}
  /\ SubSeq(failed_cases, 1, Len(step.failed)) = step.failed

\* A step counted a skipped case on top of earlier counts, with a failed
\* case already in the list.
C15_Witness ==
  /\ AfterIteration
  /\ step.summary.passed >= 1
  /\ step.failed # <<>>
  /\ case_summary.skipped = step.summary.skipped + 1
  /\ failed_cases = step.failed

\* ----------------------------------------------------------------- C17
\* The result the last step sent was accepted / was rejected.
ResultAccepted ==
  \E n \in 1..Len(NewCalls) : NewCalls[n].op = "create_result" /\ NewCalls[n].ret = "true"

ResultRejected ==
  \E n \in 1..Len(NewCalls) : NewCalls[n].op = "create_result" /\ NewCalls[n].ret = "false"

\* C17: the failed counter of the summary is 0 in every state, and the
\* summary line end() prints shows "0 failed"; a rejected submission
\* changes no counter and puts its case id on the list of failed cases; an
\* accepted submission of a failed scenario is counted under passed.
C17_FailedCounterStaysZero ==
  /\ case_summary.failed = 0
  /\ ResultRejected =>
       /\ case_summary = step.summary
       /\ failed_cases = Append(step.failed, step.case_id)
  /\ (ResultAccepted /\ scenario.status = "failed") =>
       /\ case_summary = [step.summary EXCEPT !["passed"] = @ + 1]
       /\ failed_cases = step.failed
  /\ pc = "ended" =>
       Contains(SummaryLine, <<",", " ", "0", " ">> \o StatusName("failed") \o <<",">>)

\* end() printed the summary of a session in which one submission was
\* rejected and the result of a failed scenario was accepted.
C17_Witness ==
  /\ pc = "ended"
  /\ failed_cases # <<>>
  /\ case_summary.passed >= 1
  /\ \E n \in 1..Len(calls) :
       /\ calls[n].op = "create_result"
       /\ calls[n].status = STATUS_FAILED
       /\ calls[n].ret = "true"

\* ----------------------------------------------------------------- C18
\* The categories the line names, in the order passed, failed, skipped,
\* undefined, untested.
Emitted ==
  SelectSeq(<<"passed", "failed", "skipped", "undefined", "untested">>,
            LAMBDA status : Contains(SummaryLine, StatusName(status)))

\* The n-th part as the claim writes it: "<n> <label> <status>" with the
\* label in the plural unless the count is 1 for the first part, and
\* "<n> <status>" for a later part.
ClaimedPart(n) ==
  LET counts == fmt.summary[Emitted[n]]
  IN IF n = 1
     THEN Str(counts) \o <<" ">> \o fmt.statement_type
            \o (IF counts = 1 THEN <<>> ELSE <<"s">>)
            \o <<" ">> \o StatusName(Emitted[n])
     ELSE Str(counts) \o <<" ">> \o StatusName(Emitted[n])

\* The parts from the n-th on, separated by ", ".
RECURSIVE ClaimedLine(_)
ClaimedLine(n) ==
  IF n > Len(Emitted) THEN <<>>
  ELSE ClaimedPart(n)
         \o (IF n < Len(Emitted) THEN <<",", " ">> ELSE <<>>)
         \o ClaimedLine(n + 1)

\* C18: the line format_summary returns is made of the parts of the
\* categories it names, in the order passed, failed, skipped, undefined,
\* untested and separated by ", "; the first part is
\* "<n> <label> <status>", every later part "<n> <status>"; the label of
\* the first part is the statement type, with the suffix s unless the
\* count of that part is 1.
C18_PartsInFixedOrder ==
  pc = "formatted" =>
    /\ \A n \in 1..Len(Emitted) : Emitted[n] \in DOMAIN fmt.summary
    /\ SummaryLine = ClaimedLine(1)

\* The mapping has no passed key: the first part is the failed part, with
\* the count 1 and the label in the singular, and a later part has another
\* count.
C18_Witness ==
  /\ pc = "formatted"
  /\ DOMAIN fmt.summary = {"failed", "undefined"}
  /\ fmt.summary["failed"] = 1
  /\ fmt.summary["undefined"] = 2
  /\ SummaryLine = <<"1", " ">> \o fmt.statement_type \o <<" ">> \o StatusName("failed")
                     \o <<",", " ", "2", " ">> \o StatusName("undefined")

\* ----------------------------------------------------------------- C19
\* The service returned the run to the project, from a lookup or a creation.
RunReturnedTo(k, run) ==
  \E n \in 1..Len(calls) :
    /\ calls[n].op \in RunOps
    /\ calls[n].project_id = projects[k].id
    /\ calls[n].ret = "run"
    /\ [id |-> calls[n].val] = run

\* C19: every create_result call for a project carries the id of the run
\* that project has adopted, a run the service returned to that project;
\* two projects hold the same run only if the service returned that run to
\* both of them.
C19_ResultGoesToOwnRun ==
  /\ \A n \in 1..Len(calls) :
       calls[n].op = "create_result" =>
         LET k == ProjectOfCall(calls[n])
         IN /\ projects[k].test_run # None
            /\ calls[n].run_id = projects[k].test_run.id
            /\ RunReturnedTo(k, projects[k].test_run)
  /\ \A j, k \in ProjectIndices :
       (j # k /\ projects[j].test_run # None /\ projects[j].test_run = projects[k].test_run) =>
         /\ RunReturnedTo(j, projects[j].test_run)
         /\ RunReturnedTo(k, projects[j].test_run)

\* Two projects hold different runs and a result was sent to each.
C19_Witness ==
  \E j, k \in ProjectIndices :
    /\ projects[j].test_run # None
    /\ projects[k].test_run # None
    /\ projects[j].test_run # projects[k].test_run
    /\ \E n, m \in 1..Len(calls) :
         /\ calls[n].op = "create_result"
         /\ calls[n].project_id = projects[j].id
         /\ calls[n].run_id = projects[j].test_run.id
         /\ calls[m].op = "create_result"
         /\ calls[m].project_id = projects[k].id
         /\ calls[m].run_id = projects[k].test_run.id

\* ----------------------------------------------------------------- C20
\* C20: every create_result call for a project carries a case id that is a
\* key of the cases of that project, in the state the call was made in and
\* in every later state, and follows a get_cases call for that project
\* that returned; a project that holds a run holds a case.
C20_ResultOnlyForKnownCase ==
  /\ \A n \in 1..Len(NewCalls) :
       NewCalls[n].op = "create_result" =>
         /\ NewCalls[n].project_id = projects[step.project].id
         /\ NewCalls[n].case_id = step.case_id
         /\ step.case_id \in projects[step.project].cases
  /\ \A n \in 1..Len(calls) :
       calls[n].op = "create_result" =>
         /\ calls[n].case_id \in projects[ProjectOfCall(calls[n])].cases
         /\ \E m \in EarlierFor(n, "get_cases") : calls[m].ret = "cases"
  /\ \A k \in ProjectIndices :
       projects[k].test_run # None => projects[k].cases # {}

\* A result was sent for the second of the two cases a project holds.
C20_Witness ==
  \E k \in ProjectIndices :
    /\ Cardinality(projects[k].cases) = 2
    /\ projects[k].test_run # None
    /\ \E n \in 1..Len(calls) :
         /\ calls[n].op = "create_result"
         /\ calls[n].project_id = projects[k].id
         /\ calls[n].case_id = <<"1", "2">>

\* ----------------------------------------------------------------- C16
\* How often the call occurs in the log.
Occurrences(log, call) == Len(SelectSeq(log, LAMBDA c : c = call))

\* The create_result calls of a log.
ResultCalls(log) == {log[n] : n \in {m \in 1..Len(log) : log[m].op = "create_result"}}

\* Both logs hold the same create_result calls, each as often.
SameResultCalls(a, b) ==
  \A call \in ResultCalls(a) \cup ResultCalls(b) : Occurrences(a, call) = Occurrences(b, call)

\* C16: with answers of the service that are a fixed function of project
\* and case id, a session that runs to its end with the scenarios, the
\* projects or the tags of the scenarios in another order ends with the
\* same passed, skipped and untested counts, has sent the same
\* create_result calls, each as often, and has made as many get_cases,
\* get_run_for_branch and create_run calls for every project; and the
\* session runs to its end in one order exactly if it does in the other.
C16_OrderDoesNotMatter ==
  pc = "ordered" =>
    LET a == order_out.given
        b == order_out.other
    IN /\ a.raised = b.raised
       /\ ~a.raised =>
            /\ a.summary.passed = b.summary.passed
            /\ a.summary.skipped = b.summary.skipped
            /\ a.summary.untested = b.summary.untested
            /\ SameResultCalls(a.calls, b.calls)
            /\ \A k \in 1..Len(order_in.projects) :
                 \A op \in {"get_cases", "get_run_for_branch", "create_run"} :
                   CountIn(a.calls, op, order_in.projects[k].id)
                     = CountIn(b.calls, op, order_in.projects[k].id)

\* Scenarios, projects and tags were all taken in the reverse order and the
\* calls were made in another order; the session ran to its end with cases
\* passed, skipped, untested and failed.
C16_Witness ==
  /\ pc = "ordered"
  /\ order_out.kind = "all"
  /\ ~order_out.given.raised
  /\ order_out.given.calls # order_out.other.calls
  /\ order_out.given.failed # <<>>
  /\ order_out.given.summary.passed >= 1
  /\ order_out.given.summary.skipped >= 1
  /\ order_out.given.summary.untested >= 1
====
